---- MODULE Spec2Model ----
(***************************************************************************)
(* Model of the C# analysis provider (src/src/provider/csharp.rs):         *)
(*   - the provider's lifecycle: concurrent init and evaluate calls over   *)
(*     the shared config / project slots and their locks;                  *)
(*   - the evaluate post-processing: deduplicate_results and the final     *)
(*     sort of the incident list.                                          *)
(* Strings are sequences of byte values, compared as Rust compares String  *)
(* (lexicographically by byte).                                            *)
(***************************************************************************)
EXTENDS Integers, Sequences, FiniteSets, TLC

VARIABLES
    overflow_checks,  \* build profile: TRUE = arithmetic overflow panics (debug),
                      \* FALSE = it wraps (release)
    results,          \* the Vec<ResultNode> handed to deduplicate_results
    new_results,      \* the value deduplicate_results returned
    incidents,        \* the incident list after conversion and sort_by_key
    dd_pc,            \* position in the post-processing of evaluate's Ok(res) arm
    config,           \* CSharpProvider.config: 0 = None, i = the Config of init call i
    project,          \* CSharpProvider.project: 0 = None, p = the Project built by init call p
    config_lock,      \* holder of the config mutex
    project_lock,     \* holder of the project mutex
    init,             \* the init calls: position, request, step outcomes, result
    sdk,              \* the background SDK task spawned by each init call
    proj,             \* the Project objects, one per init call that constructed one
    eval,             \* the evaluate calls: position, request, snapshot, response
    last_returned,    \* the init call that returned last (0: none has returned)
    stream,           \* the stream_prepare_progress calls: channel, sender task, receiver
    stub              \* the fixed-response call made last and what it returned

dedupVars == <<overflow_checks, results, new_results, incidents, dd_pc>>
lifeVars == <<config, project, config_lock, project_lock, init, sdk, proj, eval, last_returned>>
stubVars == <<stream, stub>>
vars == <<overflow_checks, results, new_results, incidents, dd_pc,
          config, project, config_lock, project_lock, init, sdk, proj, eval, last_returned,
          stream, stub>>

(***************************************************************************)
(* Bounds of the model.                                                    *)
(***************************************************************************)
MaxLen == 3
MaxInits == 2
MaxEvals == 1
MaxStreams == 1

(***************************************************************************)
(* Strings.                                                                *)
(***************************************************************************)
Min(a, b) == IF a <= b THEN a ELSE b

\* Ord for String / str: lexicographic comparison of the bytes.
StrLess(s, t) ==
    \E i \in 1..(Min(Len(s), Len(t)) + 1) :
        /\ \A j \in 1..(i - 1) : s[j] = t[j]
        /\ \/ (i > Len(s) /\ i <= Len(t))
           \/ (i <= Len(s) /\ i <= Len(t) /\ s[i] < t[i])

\* Display / Debug of a non-negative integer: its decimal digits ('0' = 48).
RECURSIVE Decimal(_)
Decimal(n) ==
    IF n < 10 THEN <<48 + n>>
    ELSE Append(Decimal(n \div 10), 48 + (n % 10))

(***************************************************************************)
(* ResultNode records the query engine can return.                         *)
(* file_uri "a" = <<97>>, "b" = <<98>>.                                    *)
(***************************************************************************)
FileA == <<97>>
FileB == <<98>>
LineNumbers == {9, 10}

\* Span shapes relative to the reported line_number:
\*   [so: start line offset, span: end line - start line, sc, ec, vars]
TightShape == [so |-> 0, span |-> 0, sc |-> 0, ec |-> 1, vars |-> 0]
WideShape == [so |-> 0, span |-> 1, sc |-> 0, ec |-> 1, vars |-> 0]
Shapes ==
    { TightShape,                                                \* tight span
      WideShape,                                                 \* crosses to next line
      [so |-> 1, span |-> 0,  sc |-> 0, ec |-> 1, vars |-> 0],   \* starts one line earlier
      [so |-> 0, span |-> 0,  sc |-> 1, ec |-> 1, vars |-> 0],   \* later start character
      [so |-> 0, span |-> 0,  sc |-> 0, ec |-> 0, vars |-> 0],   \* earlier end character
      [so |-> 0, span |-> 0,  sc |-> 0, ec |-> 1, vars |-> 1],   \* same span, other bindings
      [so |-> 0, span |-> -1, sc |-> 0, ec |-> 1, vars |-> 0] }  \* end line before start line

create_result_node(file_uri, line_number, start_line, start_char, end_line, end_char, bindings) ==
    [file_uri |-> file_uri, line_number |-> line_number,
     start_line |-> start_line, start_char |-> start_char,
     end_line |-> end_line, end_char |-> end_char, variables |-> bindings]

shaped_node(f, l, s) ==
    create_result_node(f, l, l - s.so, s.sc, l - s.so + s.span, s.ec, s.vars)

\* every shape on two adjacent lines of file "a"; two matches in file "b"
ResultNodes ==
    { shaped_node(FileA, l, s) : l \in LineNumbers, s \in Shapes }
        \cup { shaped_node(FileB, 10, s) : s \in {TightShape, WideShape} }

RECURSIVE SeqsUpTo(_, _)
SeqsUpTo(S, n) ==
    IF n = 0 THEN {<< >>}
    ELSE LET shorter == SeqsUpTo(S, n - 1)
         IN shorter \cup { Append(q, x) : q \in { p \in shorter : Len(p) = n - 1 }, x \in S }

(***************************************************************************)
(* usize arithmetic.  usize is 64 bits wide on the supported targets; the  *)
(* model scales the modulus down to 2^16, which keeps the order of every   *)
(* difference of two line numbers below 2^16.                              *)
(***************************************************************************)
UsizeModulus == 2 ^ 16

\* a - b on usize: wraps in builds without overflow checks.
usize_sub(a, b) == (a - b + UsizeModulus) % UsizeModulus

\* a - b on usize panics ("attempt to subtract with overflow") in builds with
\* overflow checks when b > a.
sub_panics(a, b) == overflow_checks /\ b > a

(***************************************************************************)
(* deduplicate_results (csharp.rs 503-535).                                *)
(***************************************************************************)
\* Ord for 4-tuples of usize: lexicographic.
Tuple4Less(x, y) ==
    \/ x[1] < y[1]
    \/ (x[1] = y[1] /\ x[2] < y[2])
    \/ (x[1] = y[1] /\ x[2] = y[2] /\ x[3] < y[3])
    \/ (x[1] = y[1] /\ x[2] = y[2] /\ x[3] = y[3] /\ x[4] < y[4])

\* the tuple (line, span, start, end) the closure of and_modify builds for a record
rank_tuple(r) ==
    <<r.line_number, usize_sub(r.end_line, r.start_line), r.start_char, r.end_char>>

\* a comparison that stops at the span
replaces_by_span_only(r, current) ==
    usize_sub(r.end_line, r.start_line) < usize_sub(current.end_line, current.start_line)

\* lines 525-526: the condition of the `if` in the closure: replace current by r
replaces(r, current) == Tuple4Less(rank_tuple(r), rank_tuple(current))

\* a key that leaves the line number out
dedup_key_file_only(r) == <<r.file_uri, 0>>

\* a key built from the line the span starts on, not the reported line number
dedup_key_by_start_line(r) == <<r.file_uri, r.start_line>>

\* line 508: the key of the BTreeMap
dedup_key(r) == <<r.file_uri, r.line_number>>

\* the BTreeMap after the first n records of the loop; panicked when a span
\* subtraction overflowed in a build that checks it
RECURSIVE best_by_location(_, _)
best_by_location(rs, n) ==
    IF n = 0 THEN [panicked |-> FALSE, map |-> << >>]
    ELSE LET prev == best_by_location(rs, n - 1)
             r == rs[n]
             key == dedup_key(r)
         IN IF prev.panicked THEN prev
            ELSE IF key \in DOMAIN prev.map
            THEN LET current == prev.map[key]
                 IN IF \/ sub_panics(r.end_line, r.start_line)
                       \/ sub_panics(current.end_line, current.start_line)
                    THEN [panicked |-> TRUE, map |-> prev.map]
                    ELSE IF replaces(r, current)
                    THEN [panicked |-> FALSE,
                          map |-> [k \in DOMAIN prev.map |->
                                      IF k = key THEN r ELSE prev.map[k]]]
                    ELSE prev
            ELSE [panicked |-> FALSE,
                  map |-> [k \in (DOMAIN prev.map) \cup {key} |->
                              IF k = key THEN r ELSE prev.map[k]]]

\* Ord for (String, usize), the key order of the BTreeMap
KeyLess(k1, k2) ==
    \/ StrLess(k1[1], k2[1])
    \/ (k1[1] = k2[1] /\ k1[2] < k2[2])

\* the keys of a BTreeMap in iteration order
RECURSIVE keys_in_order(_)
keys_in_order(K) ==
    IF K = {} THEN << >>
    ELSE LET least == CHOOSE k \in K : \A o \in K \ {k} : KeyLess(k, o)
         IN <<least>> \o keys_in_order(K \ {least})

\* best_by_location.values().copied().collect()
map_values(m) ==
    LET ks == keys_in_order(DOMAIN m)
    IN [i \in 1..Len(ks) |-> m[ks[i]]]

deduplicate_results(rs) ==
    LET final == best_by_location(rs, Len(rs))
    IN [panicked |-> final.panicked,
        out |-> IF final.panicked THEN << >> ELSE map_values(final.map)]

(***************************************************************************)
(* Conversion to incidents and the final sort (csharp.rs 420-421).         *)
(***************************************************************************)
\* ResultNode -> IncidentContext: the location and Some(line number)
into_incident(r) == [file_uri |-> r.file_uri, line_number |-> r.line_number]

\* format!("{}-{:?}", i.file_uri, i.line_number())   ('-' = 45)
sort_key(i) == i.file_uri \o <<45>> \o Decimal(i.line_number)

\* slice::sort_by_key: a stable sort; insert x after every element whose key
\* is not greater
RECURSIVE insert_sorted(_, _)
insert_sorted(s, x) ==
    IF s = << >> THEN <<x>>
    ELSE IF StrLess(sort_key(x), sort_key(s[1]))
         THEN <<x>> \o s
         ELSE <<s[1]>> \o insert_sorted(Tail(s), x)

RECURSIVE sort_by_key(_)
sort_by_key(s) ==
    IF s = << >> THEN << >>
    ELSE insert_sorted(sort_by_key(SubSeq(s, 1, Len(s) - 1)), s[Len(s)])

\* new_results.into_iter().map(Into::into).collect(), then i.sort_by_key(..)
sorted_incidents(deduped) ==
    sort_by_key([i \in 1..Len(deduped) |-> into_incident(deduped[i])])

(***************************************************************************)
(* The provider: calls, locks, projects.                                   *)
(***************************************************************************)
Inits == 1..MaxInits
Evals == 1..MaxEvals

Free == <<"free", 0>>
InitCall(i) == <<"init", i>>
EvalCall(e) == <<"eval", e>>

\* target framework monikers the detection can return: "net8.0", "net472"
Net8 == <<110, 101, 116, 56, 46, 48>>
Net472 == <<110, 101, 116, 52, 55, 50>>
Frameworks == {Net8, Net472}
NoFramework == << >>

starts_with(s, prefix) ==
    /\ Len(prefix) <= Len(s)
    /\ \A k \in 1..Len(prefix) : s[k] = prefix[k]

\* a classification that takes every "net..." moniker for modern .NET
is_modern_any_net(tfm_str) == starts_with(tfm_str, <<110, 101, 116>>)

\* lines 142-148; "netcoreapp", "netstandard", "net", "net4", "net3", "net2", "net1"
is_modern_dotnet(tfm_str) ==
    \/ starts_with(tfm_str, <<110, 101, 116, 99, 111, 114, 101, 97, 112, 112>>)
    \/ starts_with(tfm_str, <<110, 101, 116, 115, 116, 97, 110, 100, 97, 114, 100>>)
    \/ /\ starts_with(tfm_str, <<110, 101, 116>>)
       /\ ~starts_with(tfm_str, <<110, 101, 116, 52>>)
       /\ ~starts_with(tfm_str, <<110, 101, 116, 51>>)
       /\ ~starts_with(tfm_str, <<110, 101, 116, 50>>)
       /\ ~starts_with(tfm_str, <<110, 101, 116, 49>>)

\* Project::new: the graph is empty and no source type is cached.  The project's
\* copy of the target framework (set_target_framework, line 137) is written by
\* init and read nowhere in the provider, so it is not carried in the state.
NewProject(install_cmd) ==
    [created |-> TRUE, dotnet_install_cmd |-> install_cmd, source_type |-> FALSE,
     graph |-> "none", graph_lock |-> Free, poisoned |-> FALSE]

NoProject ==
    [created |-> FALSE, dotnet_install_cmd |-> FALSE, source_type |-> FALSE,
     graph |-> "none", graph_lock |-> Free, poisoned |-> FALSE]

IdleInit ==
    [pc |-> "idle", overlaps |-> FALSE, tools_ok |-> FALSE, install_cmd |-> FALSE, proj |-> 0,
     fw |-> NoFramework, fw_err |-> FALSE, validate |-> "na", build |-> "na", resolve |-> "na",
     persist |-> "na", result |-> "pending"]

NoPayload == [some |-> FALSE, matched |-> FALSE, incident_contexts |-> << >>]

\* what evaluate hands back: Ok(Response(EvaluateResponse)), Err(Status), or a panic
NoOutcome == [kind |-> "pending", successful |-> FALSE, error |-> "", response |-> NoPayload]
OkOutcome(successful, error, response) ==
    [kind |-> "ok", successful |-> successful, error |-> error, response |-> response]
StatusErr(msg) ==
    [kind |-> "status", successful |-> FALSE, error |-> msg, response |-> NoPayload]
Panicked ==
    [kind |-> "panic", successful |-> FALSE, error |-> "", response |-> NoPayload]

IdleEval ==
    [pc |-> "idle", cap |-> "", payload |-> "", graph |-> 0, queried |-> "no",
     found_poisoned |-> FALSE, engine |-> "none",
     after_failed_init |-> FALSE, ready_at_check |-> FALSE, outcome |-> NoOutcome]

\* history the claims speak of
IssuedInits == { i \in Inits : init[i].pc # "idle" }
InFlightInits == { i \in Inits : init[i].pc \notin {"idle", "returned"} }
LastInitResult ==
    IF last_returned = 0 THEN "none" ELSE init[last_returned].result
EverInitOk == \E i \in Inits : init[i].result = "ok"
\* no init is in flight and the init that returned last returned an error
QuietAfterFailedInit ==
    /\ InFlightInits = {}
    /\ LastInitResult \notin {"none", "ok"}

\* the lists of matches a query can return in the provider model
Tight(f, l) == create_result_node(f, l, l, 0, l, 1, 0)
Wide(f, l) == create_result_node(f, l, l, 0, l + 1, 1, 0)
Reversed(f, l) == create_result_node(f, l, l, 0, l - 1, 1, 0)
QueryResultLists ==
    { << >>,
      <<Tight(<<97>>, 10)>>,
      <<Tight(<<97>>, 10), Tight(<<97>>, 9)>>,
      <<Wide(<<97>>, 10), Tight(<<97>>, 10)>>,
      <<Tight(<<97>>, 10), Reversed(<<97>>, 10)>> }

(***************************************************************************)
(* The calls that do not touch the provider's state (csharp.rs 73-93,      *)
(* 284-315, 463-496).                                                      *)
(***************************************************************************)
Streams == 1..MaxStreams

\* lines 300-305: the one event the spawned task sends
PrepareEvent ==
    [type |-> "Prepare", provider_name |-> "c-sharp", files_processed |-> 0, total_files |-> 0]

\* a stream_prepare_progress call: the handler, the spawned sender (which owns
\* tx), the channel, and the client's end of the ReceiverStream
IdleStream ==
    [pc |-> "idle", task |-> "none", tx |-> FALSE, chan |-> << >>,
     rx |-> "none", delivered |-> << >>, closed |-> FALSE]

StubCalls ==
    {"capabilities", "prepare", "stop", "get_dependencies", "get_dependencies_dag",
     "notify_file_changes"}

NoStubCall == [call |-> "none", response |-> [kind |-> "none"]]

\* lines 73-93, 284-292, 463-496: the response each of these handlers builds
stub_response(call) ==
    IF call = "capabilities"
    THEN [kind |-> "ok", capabilities |-> <<"referenced">>]
    ELSE IF call \in {"get_dependencies", "get_dependencies_dag"}
    THEN [kind |-> "ok", successful |-> TRUE, error |-> "", deps |-> << >>]
    ELSE IF call = "stop"
    THEN [kind |-> "ok"]
    ELSE [kind |-> "ok", error |-> ""]

LifeInit ==
    /\ config = 0
    /\ project = 0
    /\ config_lock = Free
    /\ project_lock = Free
    /\ init = [i \in Inits |-> IdleInit]
    /\ sdk = [i \in Inits |-> "none"]
    /\ proj = [p \in Inits |-> NoProject]
    /\ eval = [e \in Evals |-> IdleEval]
    /\ last_returned = 0
    /\ stream = [s \in Streams |-> IdleStream]
    /\ stub = NoStubCall

(***************************************************************************)
(* init (csharp.rs 95-282).                                                *)
(***************************************************************************)
\* the call returns: its guards are dropped
InitReturns(i, result, outcomes) ==
    /\ init' = [init EXCEPT ![i] = [outcomes EXCEPT !.pc = "returned", !.result = result]]
    /\ last_returned' = i

\* the request arrives; its Config names the tools (found or not, with or
\* without a dotnet-install command)
InitIssue(i) ==
    /\ init[i].pc = "idle"
    /\ \A j \in 1..(i - 1) : init[j].pc # "idle"
    /\ \E tools_ok \in BOOLEAN, install_cmd \in BOOLEAN :
          /\ (install_cmd => tools_ok)
          /\ init' = [init EXCEPT ![i].pc = "l96", ![i].tools_ok = tools_ok,
                                  ![i].install_cmd = install_cmd,
                                  ![i].overlaps = (InFlightInits # {})]
    /\ eval' = [e \in Evals |->
                  IF eval[e].pc \notin {"idle", "returned"}
                  THEN [eval[e] EXCEPT !.after_failed_init = FALSE]
                  ELSE eval[e]]
    /\ UNCHANGED <<config, project, config_lock, project_lock, sdk, proj, last_returned>>
    /\ UNCHANGED <<dedupVars, stubVars>>

\* lines 96-108: lock config, store the request's Config, resolve the tools,
\* construct the Project; `?` returns with the config already replaced
InitStoreConfig(i) ==
    /\ init[i].pc = "l96"
    /\ config_lock = Free
    /\ config' = i
    /\ IF init[i].tools_ok
       THEN /\ config_lock' = InitCall(i)
            /\ proj' = [proj EXCEPT ![i] = NewProject(init[i].install_cmd)]
            /\ init' = [init EXCEPT ![i].pc = "l110"]
            /\ UNCHANGED last_returned
       ELSE /\ config_lock' = Free
            /\ InitReturns(i, "err_tools", init[i])
            /\ UNCHANGED proj
    /\ UNCHANGED <<project, project_lock, sdk, eval>>
    /\ UNCHANGED <<dedupVars, stubVars>>

\* an install that keeps a project already stored (Option::get_or_insert)
get_or_insert(stored, new) == IF stored = 0 THEN new ELSE stored

\* line 111: Option::replace: the slot holds the new value whatever it held
replace(stored, new) == new

\* an init that never lets go of the config guard
config_guard_kept(holder) == holder

\* line 113: drop(config_guard)
config_guard_dropped(holder) == Free

\* lines 109-113: lock project, replace it by the new Project, drop both guards
InitInstallProject(i) ==
    /\ init[i].pc = "l110"
    /\ project_lock = Free
    /\ project' = replace(project, i)
    /\ config_lock' = config_guard_dropped(config_lock)
    /\ init' = [init EXCEPT ![i].pc = "l115"]
    /\ UNCHANGED <<config, project_lock, sdk, proj, eval, last_returned>>
    /\ UNCHANGED <<dedupVars, stubVars>>

\* lines 115-123: lock project again and read the Project now stored; the guard
\* is held until init returns
InitRelockProject(i) ==
    /\ init[i].pc = "l115"
    /\ project_lock = Free
    /\ IF project = 0
       THEN /\ InitReturns(i, "err_noproject", init[i])
            /\ UNCHANGED project_lock
       ELSE /\ project_lock' = InitCall(i)
            /\ init' = [init EXCEPT ![i].pc = "l129", ![i].proj = project]
            /\ UNCHANGED last_returned
    /\ UNCHANGED <<config, project, config_lock, sdk, proj, eval>>
    /\ UNCHANGED <<dedupVars, stubVars>>

\* lines 133-223: the SDK task is spawned for a detected modern framework when
\* the project's tools hold a dotnet-install command
spawns_sdk_task(detected, tfm, dotnet_install_cmd) ==
    detected /\ is_modern_dotnet(tfm) /\ dotnet_install_cmd

\* lines 129-224: detect the target framework (Err: none), store it in the
\* project, spawn the SDK task or not
InitDetectFramework(i) ==
    /\ init[i].pc = "l129"
    /\ LET p == init[i].proj
       IN \E tfm \in Frameworks \cup {NoFramework} :
            LET detected == tfm # NoFramework
            IN /\ sdk' = IF spawns_sdk_task(detected, tfm, proj[p].dotnet_install_cmd)
                         THEN [sdk EXCEPT ![i] = "running"]
                         ELSE sdk
               /\ init' = [init EXCEPT ![i].pc = "l230", ![i].fw = tfm,
                                       ![i].fw_err = ~detected]
    /\ UNCHANGED <<config, project, config_lock, project_lock, proj, eval, last_returned>>
    /\ UNCHANGED <<dedupVars, stubVars>>

\* lines 166-199: the spawned task installs the SDK, looks for its XML files
\* and loads them into the database; it ends with Ok(count), with Err (install,
\* enumeration or load failure), or by panicking
SdkTask(i) ==
    /\ sdk[i] = "running"
    /\ \E end \in {"ok", "err", "panicked"} :
          sdk' = [sdk EXCEPT ![i] = end]
    /\ UNCHANGED <<config, project, config_lock, project_lock, init, proj, eval, last_returned>>
    /\ UNCHANGED <<dedupVars, stubVars>>

\* lines 230-235: validate_language_configuration; a failure returns
\* Status::internal
InitValidate(i) ==
    /\ init[i].pc = "l230"
    /\ LET p == init[i].proj
       IN \E ok \in BOOLEAN :
            IF ok
            THEN /\ proj' = [proj EXCEPT ![p].source_type = TRUE]
                 /\ init' = [init EXCEPT ![i].pc = "l236", ![i].validate = "ok"]
                 /\ UNCHANGED <<project_lock, last_returned>>
            ELSE /\ InitReturns(i, "err_langcfg", [init[i] EXCEPT !.validate = "fail"])
                 /\ project_lock' = Free
                 /\ UNCHANGED proj
    /\ UNCHANGED <<config, project, config_lock, sdk, eval>>
    /\ UNCHANGED <<dedupVars, stubVars>>

\* lines 236-240: get_project_graph; `?` returns Status "failed"
InitBuildGraph(i) ==
    /\ init[i].pc = "l236"
    /\ LET p == init[i].proj
       IN /\ proj[p].graph_lock = Free
          /\ \E ok \in BOOLEAN :
               IF ok
               THEN /\ proj' = [proj EXCEPT ![p].graph = "built"]
                    /\ init' = [init EXCEPT ![i].pc = "l241", ![i].build = "ok"]
                    /\ UNCHANGED <<project_lock, last_returned>>
               ELSE /\ InitReturns(i, "err_graph", [init[i] EXCEPT !.build = "fail"])
                    /\ project_lock' = Free
                    /\ UNCHANGED proj
    /\ UNCHANGED <<config, project, config_lock, sdk, eval>>
    /\ UNCHANGED <<dedupVars, stubVars>>

\* a resolve() failure that is logged and ignored
after_resolve_ignored(ok) == "l254"

\* lines 244-250: what init does with the awaited result of resolve()
after_resolve(ok) == IF ok THEN "l254" ELSE "returned"

\* lines 241-251: project.resolve() and its await
InitResolve(i) ==
    /\ init[i].pc = "l241"
    /\ LET p == init[i].proj
       IN \E ok \in BOOLEAN :
            LET outcomes == [init[i] EXCEPT !.resolve = IF ok THEN "ok" ELSE "fail"]
            IN IF after_resolve(ok) = "returned"
               THEN /\ InitReturns(i, "err_deps", outcomes)
                    /\ project_lock' = Free
                    /\ UNCHANGED proj
               ELSE /\ proj' = IF ok THEN [proj EXCEPT ![p].graph = "resolved"] ELSE proj
                    /\ init' = [init EXCEPT ![i] = [outcomes EXCEPT !.pc = "l254"]]
                    /\ UNCHANGED <<project_lock, last_returned>>
    /\ UNCHANGED <<config, project, config_lock, sdk, eval>>
    /\ UNCHANGED <<dedupVars, stubVars>>

\* an SDK task failure that aborts init
after_join_fatal(task) == IF task \in {"err", "panicked"} THEN "returned" ELSE "l270"

\* lines 254-267: every arm of the match on handle.await only logs
after_join(task) == "l270"

\* an init that goes on without awaiting the handle
join_not_awaited(task) == TRUE

\* lines 254-255: with no handle there is nothing to wait for; handle.await
\* completes when the task has ended (returned or panicked)
join_ready(task) == task \in {"none", "ok", "err", "panicked"}

\* lines 253-267: await the SDK task when one was spawned
InitJoinSdk(i) ==
    /\ init[i].pc = "l254"
    /\ join_ready(sdk[i])
    /\ IF after_join(sdk[i]) = "l270"
       THEN /\ init' = [init EXCEPT ![i].pc = "l270"]
            /\ UNCHANGED <<project_lock, last_returned>>
       ELSE /\ InitReturns(i, "err_sdk", init[i])
            /\ project_lock' = Free
    /\ UNCHANGED <<config, project, config_lock, sdk, proj, eval>>
    /\ UNCHANGED <<dedupVars, stubVars>>

\* lines 270-281: the Result of load_to_database is logged; the response is
\* successful either way
init_response(persist_ok) == "ok"

\* lines 269-282: load_to_database, then the response
InitPersist(i) ==
    /\ init[i].pc = "l270"
    /\ LET p == init[i].proj
       IN /\ proj[p].graph_lock = Free
          /\ \E ok \in BOOLEAN :
               /\ proj' = IF ok
                          THEN [proj EXCEPT ![p].graph = "loaded"]
                          ELSE proj
               /\ InitReturns(i, init_response(ok),
                              [init[i] EXCEPT !.persist = IF ok THEN "ok" ELSE "err"])
    /\ project_lock' = Free
    /\ UNCHANGED <<config, project, config_lock, sdk, eval>>
    /\ UNCHANGED <<dedupVars, stubVars>>

(***************************************************************************)
(* evaluate (csharp.rs 317-461).                                           *)
(***************************************************************************)
QueryOutcomes ==
    { [kind |-> "not_found", res |-> << >>], [kind |-> "error", res |-> << >>] }
        \cup { [kind |-> "ok", res |-> l] : l \in QueryResultLists }

NotInitialized == OkOutcome(FALSE, "project may not be initialized", NoPayload)

\* a precheck that parses the condition before it looks at the capability name
precheck_payload_first(cap, payload) ==
    IF payload = "malformed"
    THEN StatusErr("failed")
    ELSE IF cap # "referenced"
    THEN OkOutcome(FALSE, "unable to find referenced capability", NoPayload)
    ELSE NoOutcome

\* a precheck that reports a condition it cannot parse in a normal response
precheck_parse_error_in_response(cap, payload) ==
    IF cap # "referenced"
    THEN OkOutcome(FALSE, "unable to find referenced capability", NoPayload)
    ELSE IF payload = "malformed"
    THEN OkOutcome(FALSE, "failed", NoPayload)
    ELSE NoOutcome

\* lines 325-336: the capability name is checked, then the condition is parsed
precheck(cap, payload) ==
    IF cap # "referenced"
    THEN OkOutcome(FALSE, "unable to find referenced capability", NoPayload)
    ELSE IF payload = "malformed"
    THEN StatusErr("failed")
    ELSE NoOutcome

\* a response that reports every Err of the query alike, NotFoundError included
evaluate_response_no_downcast(q) ==
    IF q.kind \in {"not_found", "error"}
    THEN OkOutcome(FALSE, "query failed", NoPayload)
    ELSE LET d == deduplicate_results(q.res)
             i == sorted_incidents(d.out)
         IN IF d.panicked
            THEN Panicked
            ELSE OkOutcome(TRUE, "", [some |-> TRUE, matched |-> i # << >>,
                                      incident_contexts |-> i])

\* a response built from the query's matches as they come, not deduplicated
evaluate_response_no_dedup(q) ==
    IF q.kind = "not_found"
    THEN OkOutcome(TRUE, "", [some |-> TRUE, matched |-> FALSE, incident_contexts |-> << >>])
    ELSE IF q.kind = "error"
    THEN OkOutcome(FALSE, "query failed", NoPayload)
    ELSE LET i == sorted_incidents(q.res)
         IN OkOutcome(TRUE, "", [some |-> TRUE, matched |-> i # << >>,
                                 incident_contexts |-> i])

\* lines 396-449: the response built from the result of the query
evaluate_response(q) ==
    IF q.kind = "not_found"
    THEN OkOutcome(TRUE, "", [some |-> TRUE, matched |-> FALSE, incident_contexts |-> << >>])
    ELSE IF q.kind = "error"
    THEN OkOutcome(FALSE, "query failed", NoPayload)
    ELSE LET d == deduplicate_results(q.res)
             i == sorted_incidents(d.out)
         IN IF d.panicked
            THEN Panicked
            ELSE OkOutcome(TRUE, "", [some |-> TRUE, matched |-> i # << >>,
                                      incident_contexts |-> i])

\* the pipeline state of a project: its graph is built, resolved and persisted,
\* no init is working on it and no SDK task is loading into it
PipelineComplete(p) ==
    /\ proj[p].graph = "loaded"
    /\ \A i \in Inits :
          init[i].proj = p =>
              /\ init[i].pc = "returned"
              /\ sdk[i] \in {"none", "ok", "err", "panicked"}

\* a request arrives (the first of its caller, or the caller's next one after
\* the previous call returned); lines 321-336
EvalIssue(e) ==
    /\ eval[e].pc \in {"idle", "returned"}
    /\ \A j \in 1..(e - 1) : eval[j].pc # "idle"
    /\ \E cap \in {"referenced", "other"}, payload \in {"wellformed", "malformed"} :
          LET early == precheck(cap, payload)
          IN eval' = [eval EXCEPT ![e] =
                        [IdleEval EXCEPT !.cap = cap, !.payload = payload,
                                         !.after_failed_init = QuietAfterFailedInit,
                                         !.outcome = early,
                                         !.pc = IF early = NoOutcome THEN "l339"
                                                ELSE "returned"]]
    /\ UNCHANGED <<config, project, config_lock, project_lock, init, sdk, proj, last_returned>>
    /\ UNCHANGED <<dedupVars, stubVars>>

\* line 339: self.project.lock().await
EvalLockProject(e) ==
    /\ eval[e].pc = "l339"
    /\ project_lock = Free
    /\ project_lock' = EvalCall(e)
    /\ eval' = [eval EXCEPT ![e].pc = "l340"]
    /\ UNCHANGED <<config, project, config_lock, init, sdk, proj, last_returned>>
    /\ UNCHANGED <<dedupVars, stubVars>>

\* lines 340-361: what the snapshot under the project lock yields
snapshot(stored, source_type) ==
    IF stored = 0 THEN "not_initialized"
    ELSE IF ~source_type THEN "not_initialized"
    ELSE "graph"

\* a snapshot that keeps the project guard alive for the rest of the call
project_guard_kept(holder) == holder

\* lines 343-348, 355-360: the early returns drop project_guard; line 363:
\* drop(project_guard)
project_guard_dropped(holder) == Free

\* lines 340-363: check the project, clone its graph handle, read the source
\* type, drop the project guard
EvalSnapshot(e) ==
    /\ eval[e].pc = "l340"
    /\ project_lock' = project_guard_dropped(project_lock)
    /\ LET source_type == IF project = 0 THEN FALSE ELSE proj[project].source_type
       IN IF snapshot(project, source_type) = "not_initialized"
          THEN eval' = [eval EXCEPT ![e].pc = "returned", ![e].ready_at_check = EverInitOk,
                                    ![e].outcome = NotInitialized]
          ELSE eval' = [eval EXCEPT ![e].pc = "l364", ![e].ready_at_check = EverInitOk,
                                    ![e].graph = project]
    /\ UNCHANGED <<config, project, config_lock, init, sdk, proj, last_returned>>
    /\ UNCHANGED <<dedupVars, stubVars>>

\* a lock() whose PoisonError is handed to the caller as a failed call
lock_graph_propagating(poisoned) ==
    IF poisoned THEN [acquired |-> FALSE, poisoned |-> TRUE]
    ELSE [acquired |-> TRUE, poisoned |-> FALSE]

\* lines 364-371: Ok(g) => g; Err(e) => clear_poison() and e.into_inner(): the
\* guard is obtained either way and the flag is clear afterwards
lock_graph(poisoned) == [acquired |-> TRUE, poisoned |-> FALSE]

\* lines 364-371: lock the graph; a poisoned lock is cleared and used
EvalLockGraph(e) ==
    /\ eval[e].pc = "l364"
    /\ LET g == eval[e].graph
           got == lock_graph(proj[g].poisoned)
       IN /\ proj[g].graph_lock = Free
          /\ IF got.acquired
             THEN /\ proj' = [proj EXCEPT ![g].graph_lock = EvalCall(e),
                                          ![g].poisoned = got.poisoned]
                  /\ eval' = [eval EXCEPT ![e].pc = "l373",
                                          ![e].found_poisoned = proj[g].poisoned]
             ELSE /\ proj' = proj
                  /\ eval' = [eval EXCEPT ![e].pc = "returned",
                                          ![e].found_poisoned = proj[g].poisoned,
                                          ![e].outcome = StatusErr("poisoned")]
    /\ UNCHANGED <<config, project, config_lock, project_lock, init, sdk, last_returned>>
    /\ UNCHANGED <<dedupVars, stubVars>>

\* lines 373-461: unwrap the graph, run the query, build the response; the
\* graph guard is dropped on return, and poisons the lock when a panic unwinds
EvalQuery(e) ==
    /\ eval[e].pc = "l373"
    /\ LET g == eval[e].graph
       IN IF proj[g].graph = "none"
          THEN /\ eval' = [eval EXCEPT ![e].pc = "returned", ![e].outcome = Panicked]
               /\ proj' = [proj EXCEPT ![g].graph_lock = Free, ![g].poisoned = TRUE]
          ELSE \E q \in QueryOutcomes :
                 LET out == evaluate_response(q)
                 IN /\ eval' = [eval EXCEPT ![e].pc = "returned", ![e].outcome = out,
                                            ![e].engine = q.kind,
                                            ![e].queried =
                                               IF PipelineComplete(g) THEN "complete"
                                               ELSE "incomplete"]
                    /\ proj' = [proj EXCEPT ![g].graph_lock = Free,
                                            ![g].poisoned = (out.kind = "panic")]
    /\ UNCHANGED <<config, project, config_lock, project_lock, init, sdk, last_returned>>
    /\ UNCHANGED <<dedupVars, stubVars>>

(***************************************************************************)
(* Specification of the provider.                                          *)
(***************************************************************************)
Init ==
    /\ overflow_checks \in BOOLEAN
    /\ results = << >>
    /\ new_results = << >>
    /\ incidents = << >>
    /\ dd_pc = "unused"
    /\ LifeInit

Next ==
    \/ \E i \in Inits : InitIssue(i)
    \/ \E i \in Inits : InitStoreConfig(i)
    \/ \E i \in Inits : InitInstallProject(i)
    \/ \E i \in Inits : InitRelockProject(i)
    \/ \E i \in Inits : InitDetectFramework(i)
    \/ \E i \in Inits : SdkTask(i)
    \/ \E i \in Inits : InitValidate(i)
    \/ \E i \in Inits : InitBuildGraph(i)
    \/ \E i \in Inits : InitResolve(i)
    \/ \E i \in Inits : InitJoinSdk(i)
    \/ \E i \in Inits : InitPersist(i)
    \/ \E e \in Evals : EvalIssue(e)
    \/ \E e \in Evals : EvalLockProject(e)
    \/ \E e \in Evals : EvalSnapshot(e)
    \/ \E e \in Evals : EvalLockGraph(e)
    \/ \E e \in Evals : EvalQuery(e)

Spec == Init /\ [][Next]_vars

\* the steps of init call i after its arrival
InitProgress(i) ==
    \/ InitStoreConfig(i)
    \/ InitInstallProject(i)
    \/ InitRelockProject(i)
    \/ InitDetectFramework(i)
    \/ InitValidate(i)
    \/ InitBuildGraph(i)
    \/ InitResolve(i)
    \/ InitJoinSdk(i)
    \/ InitPersist(i)

\* the steps of evaluate call e after its arrival
EvalProgress(e) ==
    \/ EvalLockProject(e)
    \/ EvalSnapshot(e)
    \/ EvalLockGraph(e)
    \/ EvalQuery(e)

\* The inputs kept for the check of termination: they decide no lock and no
\* wait.  Left out are the framework "net472" (no task is spawned for it, as
\* when detection fails), an SDK task that ends with Err (it ends with Ok or
\* panics), the requests that return before any lock (unsupported capability,
\* malformed payload), and the query results other than NotFoundError and the
\* list whose deduplication panics.
TerminationInputs ==
    /\ \A i \in Inits : init[i].fw # Net472 /\ sdk[i] # "err"
    /\ \A e \in Evals :
          /\ eval[e].cap # "other"
          /\ eval[e].payload # "malformed"
          /\ eval[e].engine \in {"none", "not_found", "ok"}
          /\ eval[e].engine = "ok" => eval[e].outcome.kind = "panic"

FairNext ==
    \/ \E i \in Inits : InitIssue(i) /\ TerminationInputs'
    \/ \E i \in Inits : InitProgress(i) /\ TerminationInputs'
    \/ \E i \in Inits : SdkTask(i) /\ TerminationInputs'
    \/ \E e \in Evals : EvalIssue(e) /\ TerminationInputs'
    \/ \E e \in Evals : EvalProgress(e) /\ TerminationInputs'

\* The provider under a fair scheduler whose collaborators terminate, in a
\* build with overflow checks (FairInit): a call that can take a step takes it, a call
\* that waits for a lock gets it when the lock keeps coming free (tokio's Mutex
\* hands the lock over in FIFO order), and a spawned SDK task runs to its end.
FairInit == Init /\ overflow_checks = TRUE

SpecFair ==
    /\ FairInit
    /\ [][FairNext]_vars
    /\ \A i \in Inits : SF_vars(InitProgress(i)) /\ WF_vars(SdkTask(i))
    /\ \A e \in Evals : SF_vars(EvalProgress(e))

(***************************************************************************)
(* capabilities, prepare, stop, get_dependencies, get_dependencies_dag,    *)
(* notify_file_changes and stream_prepare_progress.                        *)
(***************************************************************************)
\* a stop that drops what the provider holds
cleared_by_stop(call, stored) == IF call = "stop" THEN 0 ELSE stored

\* lines 73-93, 284-292, 463-496: none of these handlers reads or writes
\* self.config or self.project; the slot holds afterwards what it held
after_stub(call, stored) == stored

StubCall(call) ==
    /\ stub' = [call |-> call, response |-> stub_response(call)]
    /\ config' = after_stub(call, config)
    /\ project' = after_stub(call, project)
    /\ UNCHANGED <<config_lock, project_lock, init, sdk, proj, eval, last_returned, stream>>
    /\ UNCHANGED dedupVars

\* a sender task that sends the event twice
events_sent_twice == <<PrepareEvent, PrepareEvent>>

\* lines 300-305: the task sends one event
events_sent == <<PrepareEvent>>

\* lines 297-314: create the channel, spawn the sender task (it owns tx), hand
\* the receiving end back as the response stream
StreamCall(s) ==
    /\ stream[s].pc = "idle"
    /\ \A j \in 1..(s - 1) : stream[j].pc # "idle"
    /\ stream' = [stream EXCEPT ![s] =
                     [IdleStream EXCEPT !.pc = "returned", !.task = "spawned",
                                        !.tx = TRUE, !.rx = "open"]]
    /\ UNCHANGED <<stub, lifeVars, dedupVars>>

\* lines 299-311: tx.send(..).await: the event is queued when the receiver is
\* alive, Err is logged when it is gone; the task ends and drops tx either way
StreamTaskSend(s) ==
    /\ stream[s].task = "spawned"
    /\ IF stream[s].rx = "open"
       THEN stream' = [stream EXCEPT ![s].chan = stream[s].chan \o events_sent,
                                     ![s].task = "done", ![s].tx = FALSE]
       ELSE stream' = [stream EXCEPT ![s].task = "send_failed", ![s].tx = FALSE]
    /\ UNCHANGED <<stub, lifeVars, dedupVars>>

\* the client polls the ReceiverStream (line 313) and gets the queued event
StreamReceive(s) ==
    /\ stream[s].rx = "open"
    /\ stream[s].chan # << >>
    /\ stream' = [stream EXCEPT ![s].delivered = Append(stream[s].delivered,
                                                        Head(stream[s].chan)),
                                 ![s].chan = Tail(stream[s].chan)]
    /\ UNCHANGED <<stub, lifeVars, dedupVars>>

\* the client polls an empty channel whose sender is dropped: end of stream
StreamEnd(s) ==
    /\ stream[s].rx = "open"
    /\ stream[s].chan = << >>
    /\ ~stream[s].tx
    /\ ~stream[s].closed
    /\ stream' = [stream EXCEPT ![s].closed = TRUE]
    /\ UNCHANGED <<stub, lifeVars, dedupVars>>

\* the client gives the stream up before its end: the receiver is dropped
StreamDrop(s) ==
    /\ stream[s].rx = "open"
    /\ ~stream[s].closed
    /\ stream' = [stream EXCEPT ![s].rx = "dropped", ![s].chan = << >>]
    /\ UNCHANGED <<stub, lifeVars, dedupVars>>

InitSteps ==
    \/ \E i \in Inits : InitIssue(i)
    \/ \E i \in Inits : InitStoreConfig(i)
    \/ \E i \in Inits : InitInstallProject(i)
    \/ \E i \in Inits : InitRelockProject(i)
    \/ \E i \in Inits : InitDetectFramework(i)
    \/ \E i \in Inits : SdkTask(i)
    \/ \E i \in Inits : InitValidate(i)
    \/ \E i \in Inits : InitBuildGraph(i)
    \/ \E i \in Inits : InitResolve(i)
    \/ \E i \in Inits : InitJoinSdk(i)
    \/ \E i \in Inits : InitPersist(i)

\* the fixed-response calls, made while init calls run
StubNext ==
    \/ InitSteps
    \/ \E call \in StubCalls : StubCall(call)

SpecStubs == Init /\ [][StubNext]_vars

\* the progress streams, opened while init calls run
StreamNext ==
    \/ InitSteps
    \/ \E s \in Streams : StreamCall(s)
    \/ \E s \in Streams : StreamTaskSend(s)
    \/ \E s \in Streams : StreamReceive(s)
    \/ \E s \in Streams : StreamEnd(s)
    \/ \E s \in Streams : StreamDrop(s)

\* the runtime runs a spawned task to its end, and a client that holds the
\* stream keeps polling it
SpecStream ==
    /\ Init
    /\ [][StreamNext]_vars
    /\ \A s \in Streams :
          /\ WF_vars(StreamTaskSend(s))
          /\ WF_vars(StreamReceive(s))
          /\ WF_vars(StreamEnd(s))

(***************************************************************************)
(* Specification of the post-processing alone: the inputs are drawn from   *)
(* the bounded set of result lists, the actions apply the functions.       *)
(***************************************************************************)
DedupInit ==
    /\ overflow_checks \in BOOLEAN
    /\ results \in SeqsUpTo(ResultNodes, MaxLen)
    /\ new_results = << >>
    /\ incidents = << >>
    /\ dd_pc = "query_ok"
    /\ LifeInit

\* line 418: let new_results = deduplicate_results(&res);
Deduplicate ==
    /\ dd_pc = "query_ok"
    /\ LET d == deduplicate_results(results)
       IN /\ new_results' = d.out
          /\ dd_pc' = IF d.panicked THEN "panicked" ELSE "deduplicated"
    /\ UNCHANGED <<overflow_checks, results, incidents>>
    /\ UNCHANGED <<lifeVars, stubVars>>

\* lines 420-421: collect the incidents and sort them
SortIncidents ==
    /\ dd_pc = "deduplicated"
    /\ incidents' = sorted_incidents(new_results)
    /\ dd_pc' = "sorted"
    /\ UNCHANGED <<overflow_checks, results, new_results>>
    /\ UNCHANGED <<lifeVars, stubVars>>

DedupNext == Deduplicate \/ SortIncidents

SpecDedup == DedupInit /\ [][DedupNext]_vars

(***************************************************************************)
(* Properties of the provider (specification Spec).                        *)
(***************************************************************************)
WellFormedCall(e) ==
    /\ eval[e].pc = "returned"
    /\ eval[e].cap = "referenced"
    /\ eval[e].payload = "wellformed"

\* C1: an evaluate that runs the query only ever queries a graph whose init
\* pipeline has fully completed (built, resolved, SDK task joined, persisted),
\* never the graph of an init that is under way or that failed part-way.
C1_QueriesOnlyCompleteGraph ==
    \A e \in Evals : eval[e].queried # "incomplete"

\* C2: a well-formed evaluate that checks the project while no init has ever
\* completed successfully returns the not-initialized response (a normal
\* response, successful = false, no payload), never a call failure or a match.
C2_NotInitializedBeforeAnyInit ==
    \A e \in Evals :
        (WellFormedCall(e) /\ ~eval[e].ready_at_check)
            => eval[e].outcome = NotInitialized

\* C3: after an init that returned an error, with no init in flight from the
\* evaluate's arrival to its return, a well-formed evaluate reports "project may
\* not be initialized": a failed init leaves no project behind.
C3_FailedInitLeavesUninitialized ==
    \A e \in Evals :
        (WellFormedCall(e) /\ eval[e].after_failed_init)
            => eval[e].outcome = NotInitialized

\* C4: init returns a successful response only if load_to_database succeeded.
C4_SuccessOnlyAfterPersisted ==
    \A i \in Inits : init[i].result = "ok" => init[i].persist = "ok"

\* C9: once language validation, graph build and dependency resolution have
\* succeeded, init never returns an error, whatever framework detection and the
\* SDK task did (detection failed, no task spawned, task failed or panicked).
C9_SdkFailureNotFatal ==
    \A i \in Inits :
        (init[i].validate = "ok" /\ init[i].build = "ok" /\ init[i].resolve = "ok")
            => init[i].result \in {"pending", "ok"}

\* an init has returned success although its SDK task panicked, and another
\* although framework detection failed
C9_Witness ==
    /\ \E i \in Inits : init[i].result = "ok" /\ sdk[i] \in {"err", "panicked"}
    /\ \E i \in Inits : init[i].result = "ok" /\ init[i].fw_err /\ sdk[i] = "none"

\* C10: when language validation, graph build or dependency resolution fails,
\* init has returned, with an error, whatever framework detection and the SDK
\* task did.
C10_PipelineFailureIsFatal ==
    \A i \in Inits :
        (init[i].validate = "fail" \/ init[i].build = "fail" \/ init[i].resolve = "fail")
            => (init[i].pc = "returned"
                /\ init[i].result \in {"err_langcfg", "err_graph", "err_deps"})

\* an init has failed at dependency resolution although its SDK task succeeded,
\* and another at validation with no framework detected
C10_Witness ==
    /\ \E i \in Inits : init[i].resolve = "fail" /\ sdk[i] = "ok"
                        /\ init[i].result = "err_deps"
    /\ \E i \in Inits : init[i].validate = "fail" /\ init[i].fw_err
                        /\ init[i].result = "err_langcfg"

\* C11: an init call that has returned, with success or with an error, has left
\* no SDK task of its own running.
C11_SdkTaskJoinedBeforeReturn ==
    \A i \in Inits : init[i].pc = "returned" => sdk[i] # "running"

\* C12: an evaluate whose capability name is not "referenced" returns a normal
\* response with successful = false, the capability message and no payload,
\* whatever the condition payload and the state of the provider.
C12_UnknownCapabilityIsLogicalFailure ==
    \A e \in Evals :
        (eval[e].pc = "returned" /\ eval[e].cap # "referenced")
            => eval[e].outcome =
                  OkOutcome(FALSE, "unable to find referenced capability", NoPayload)

\* an unsupported capability with a malformed payload has been answered while a
\* project was stored and an init was in flight
C12_Witness ==
    /\ \E e \in Evals :
          /\ eval[e].pc = "returned"
          /\ eval[e].cap = "other"
          /\ eval[e].payload = "malformed"
          /\ eval[e].outcome.kind = "ok"
    /\ project # 0
    /\ InFlightInits # {}

\* C13: evaluate checks the capability name, then the payload, then the stored
\* project.  A malformed payload under the supported capability is a failed
\* call (Status "failed") whatever the provider holds, no other check fails the
\* call, and a capability mismatch or a missing project is a normal response
\* with successful = false.
C13_PreconditionOrder ==
    \A e \in Evals :
        eval[e].pc = "returned" =>
            /\ (eval[e].cap = "referenced" /\ eval[e].payload = "malformed")
                  => eval[e].outcome = StatusErr("failed")
            /\ eval[e].outcome.kind = "status"
                  => (eval[e].cap = "referenced" /\ eval[e].payload = "malformed")
            /\ eval[e].cap # "referenced"
                  => (eval[e].outcome.kind = "ok" /\ ~eval[e].outcome.successful)
            /\ (eval[e].cap = "referenced" /\ eval[e].payload = "wellformed" /\ project = 0)
                  => eval[e].outcome = NotInitialized

\* a malformed payload under the supported capability has failed the call while
\* no project was stored: the payload is checked before the project
C13_Witness ==
    /\ project = 0
    /\ \E e \in Evals :
          /\ eval[e].pc = "returned"
          /\ eval[e].cap = "referenced"
          /\ eval[e].payload = "malformed"
          /\ eval[e].outcome.kind = "status"

\* C14: when the query engine reports NotFoundError, evaluate returns
\* successful = true with matched = false and no incidents; when it fails in
\* another way, evaluate returns successful = false with the error's text and
\* no payload.  Both are normal responses.
C14_QueryErrorMapping ==
    \A e \in Evals :
        eval[e].pc = "returned" =>
            /\ eval[e].engine = "not_found"
                  => eval[e].outcome =
                        OkOutcome(TRUE, "", [some |-> TRUE, matched |-> FALSE,
                                             incident_contexts |-> << >>])
            /\ eval[e].engine = "error"
                  => eval[e].outcome = OkOutcome(FALSE, "query failed", NoPayload)

\* a query on an installed project has ended in NotFoundError and the call has
\* returned a successful, unmatched response
C14_Witness ==
    \E e \in Evals :
        /\ eval[e].pc = "returned"
        /\ eval[e].engine = "not_found"
        /\ eval[e].outcome.successful
        /\ eval[e].outcome.response.some

\* C15: an evaluate that finds the graph lock poisoned clears the flag and goes
\* on: while it holds the lock the flag is clear; it never returns the poisoning
\* as a failed call; its outcome is the one the query on the graph's contents
\* gives (the same as on a lock that was not poisoned); and when it returns
\* without a panic of its own it leaves the flag clear for later acquisitions.
C15_PoisonRecoveredTransparently ==
    /\ [](\A e \in Evals :
            /\ eval[e].pc = "l373" => ~proj[eval[e].graph].poisoned
            /\ (eval[e].pc = "returned" /\ eval[e].found_poisoned)
                  => /\ eval[e].outcome.kind # "status"
                     /\ IF eval[e].engine = "none"
                        THEN eval[e].outcome = Panicked
                        ELSE eval[e].outcome \in
                                { evaluate_response(q) :
                                     q \in { o \in QueryOutcomes : o.kind = eval[e].engine } })
    /\ [][\A e \in Evals :
            (/\ eval[e].pc = "l373"
             /\ eval[e].found_poisoned
             /\ eval'[e].pc = "returned"
             /\ eval'[e].outcome.kind # "panic")
                => ~proj'[eval[e].graph].poisoned]_vars

\* an evaluate has found the graph lock poisoned by an earlier call's panic, has
\* run the query and has returned matches, and the lock is no longer poisoned
C15_Witness ==
    \E e \in Evals :
        /\ eval[e].pc = "returned"
        /\ eval[e].found_poisoned
        /\ eval[e].engine = "ok"
        /\ eval[e].outcome.kind = "ok"
        /\ eval[e].outcome.response.matched
        /\ ~proj[eval[e].graph].poisoned

\* C16: the stored project is Some if and only if some init call has returned
\* success.
C16_ProjectSomeIffInitSucceeded ==
    (project # 0) <=> EverInitOk

\* C17: whenever neither the config lock nor the project lock is held (a reader
\* can take both), a stored project was built from the stored config: both come
\* from the same init request.
C17_ProjectBuiltFromStoredConfig ==
    (config_lock = Free /\ project_lock = Free /\ project # 0) => config = project

\* init a returned success, init b was issued after it with no init in flight,
\* returned success too, and no init has been issued since
ReinitDone(a, b) ==
    /\ a < b
    /\ init[a].result = "ok"
    /\ ~init[b].overlaps
    /\ init[b].result = "ok"
    /\ \A c \in Inits : c > b => init[c].pc = "idle"

\* C18: after a successful init followed by a second successful init, the stored
\* project is the one the second init built (the first is no longer stored), the
\* second init ran its pipeline on it, and an evaluate that takes its snapshot
\* from then on gets the graph of the second project.
C18_ReinitReplacesProject ==
    /\ [](\A a \in Inits, b \in Inits :
            ReinitDone(a, b) => (project = b /\ project # a /\ init[b].proj = b))
    /\ [][\A a \in Inits, b \in Inits, e \in Evals :
            (/\ ReinitDone(a, b)
             /\ eval[e].pc = "l340"
             /\ eval'[e].pc = "l364")
                => eval'[e].graph = b]_vars

\* two inits have succeeded one after the other, each on its own project, and an
\* evaluate has then run its query on the graph of the second
C18_Witness ==
    /\ ReinitDone(1, 2)
    /\ init[1].proj = 1
    /\ proj[1].graph = "loaded"
    /\ proj[2].graph = "loaded"
    /\ \E e \in Evals :
          /\ eval[e].pc = "returned"
          /\ eval[e].graph = 2
          /\ eval[e].engine = "ok"
          /\ ~eval[e].found_poisoned

\* C19: when init b was issued while the earlier init a was in flight and both
\* built a project, then once both have returned the stored project is the one
\* b built, and a never ran its pipeline on b's project.
C19_LaterInitSupersedes ==
    \A a \in Inits, b \in Inits :
        (/\ a < b
         /\ init[b].overlaps
         /\ init[a].tools_ok /\ init[b].tools_ok
         /\ init[a].pc = "returned" /\ init[b].pc = "returned")
            => (project = b /\ init[a].proj # b)

\* framework detection of init i has run
DetectionDone(i) == init[i].fw # NoFramework \/ init[i].fw_err

\* the classification as the rule words it: "netcoreapp..." or "netstandard...",
\* or "net..." that is none of "net1...", "net2...", "net3...", "net4..."
ModernByRule(f) ==
    LET HasPrefix(p) == Len(f) >= Len(p) /\ SubSeq(f, 1, Len(p)) = p
        net == <<110, 101, 116>>
    IN \/ HasPrefix(net \o <<99, 111, 114, 101, 97, 112, 112>>)
       \/ HasPrefix(net \o <<115, 116, 97, 110, 100, 97, 114, 100>>)
       \/ /\ HasPrefix(net)
          /\ \A d \in 49..52 : ~HasPrefix(net \o <<d>>)

\* C23: an init call has started its SDK task if and only if its framework
\* detection returned a framework, that framework is modern by the rule, and
\* the tools of the project it works on hold a dotnet-install command; without
\* a task it stands at language validation right after detection.
C23_SdkTaskIffEligible ==
    \A i \in Inits :
        /\ ~DetectionDone(i) => (sdk[i] = "none" /\ init[i].validate = "na")
        /\ DetectionDone(i)
              => ((sdk[i] # "none")
                    <=> (/\ init[i].fw # NoFramework
                         /\ ModernByRule(init[i].fw)
                         /\ proj[init[i].proj].dotnet_install_cmd))

\* one init has started the task for "net8.0"; the other, whose tools hold the
\* command as well, has started none for "net472"
C23_Witness ==
    \E i \in Inits, j \in Inits :
        /\ init[i].fw = Net8 /\ sdk[i] # "none"
        /\ init[j].fw = Net472 /\ sdk[j] = "none"
        /\ proj[init[j].proj].dotnet_install_cmd

\* C24: the steps of one init call are ordered: the SDK task is started only
\* after detection returned a framework; the graph is built only after
\* validation succeeded, dependencies are resolved only after the graph was
\* built; load_to_database starts only after resolution succeeded and with the
\* SDK task (if any) ended; success is returned only after load_to_database.
C24_InitStepsOrdered ==
    \A i \in Inits :
        /\ sdk[i] # "none" => init[i].fw # NoFramework
        /\ init[i].build # "na" => init[i].validate = "ok"
        /\ init[i].resolve # "na" => init[i].build = "ok"
        /\ (init[i].pc = "l270" \/ init[i].persist # "na")
              => (init[i].resolve = "ok" /\ sdk[i] # "running")
        /\ init[i].result = "ok" => init[i].persist # "na"

\* an init whose SDK task ended with Ok has gone through every step and has
\* returned success
C24_Witness ==
    \E i \in Inits :
        /\ init[i].result = "ok"
        /\ init[i].fw = Net8
        /\ sdk[i] = "ok"
        /\ init[i].validate = "ok" /\ init[i].build = "ok" /\ init[i].resolve = "ok"
        /\ init[i].persist = "ok"

\* C25: an evaluate holds the project lock only while it takes its snapshot:
\* never while it waits for or holds the graph lock, runs the query, or after
\* it returned.
C25_ProjectLockOnlyForSnapshot ==
    \A e \in Evals :
        /\ project_lock = EvalCall(e) => eval[e].pc = "l340"
        /\ (\E p \in Inits : proj[p].graph_lock = EvalCall(e))
              => (eval[e].pc = "l373" /\ project_lock # EvalCall(e))

\* an evaluate holds the graph lock of the project it snapshotted while an init
\* call holds the project lock
C25_Witness ==
    \E e \in Evals, i \in Inits :
        /\ eval[e].pc = "l373"
        /\ proj[eval[e].graph].graph_lock = EvalCall(e)
        /\ project_lock = InitCall(i)

\* C26: the project an init call runs its pipeline on (the one it re-read from
\* the shared slot) is the project this call constructed from its own config.
C26_InitWorksOnOwnProject ==
    \A i \in Inits : init[i].proj \in {0, i}

InitRunning(i) == init[i].pc \notin {"idle", "returned"}
EvalRunning(e) == eval[e].pc \notin {"idle", "returned"}
HoldsGraphLock(c) == \E p \in Inits : proj[p].graph_lock = c

\* C27: locks are acquired in the order config, project, graph (a call that
\* waits for the config lock holds no lock, a call that waits for the project
\* lock holds no graph lock, and a call that holds a graph lock waits for
\* nothing), and under the fair scheduler every init call and every evaluate
\* call that has arrived eventually returns.
C27_NoDeadlockAllCallsReturn ==
    /\ [](/\ \A i \in Inits :
               /\ init[i].pc = "l96" => (config_lock # InitCall(i) /\ project_lock # InitCall(i))
               /\ init[i].pc \in {"l110", "l115"} => project_lock # InitCall(i)
               /\ ~HoldsGraphLock(InitCall(i))
          /\ \A e \in Evals :
               /\ eval[e].pc = "l339" => ~HoldsGraphLock(EvalCall(e))
               /\ config_lock # EvalCall(e)
               /\ HoldsGraphLock(EvalCall(e))
                     => (eval[e].pc = "l373" /\ project_lock # EvalCall(e)))
    /\ \A i \in Inits : InitRunning(i) ~> (init[i].pc = "returned")
    /\ \A e \in Evals : EvalRunning(e) ~> (eval[e].pc = "returned")

\* two overlapping inits and an evaluate that had to wait for the project lock
\* have all returned
C27_Witness ==
    /\ \A i \in Inits : init[i].pc = "returned"
    /\ \E i \in Inits : init[i].overlaps /\ init[i].tools_ok
    /\ \E e \in Evals : eval[e].pc = "returned" /\ eval[e].queried # "no"

\* C28: every response evaluate returns is well-formed.  successful = false
\* comes with no payload and a non-empty error message; successful = true comes
\* with an empty error message and a payload whose matched flag is true exactly
\* when the incident list is non-empty, with at most one incident per
\* (file_uri, line_number).
C28_ResponseWellFormed ==
    \A e \in Evals :
        (eval[e].pc = "returned" /\ eval[e].outcome.kind = "ok") =>
            LET o == eval[e].outcome
                inc == o.response.incident_contexts
            IN /\ ~o.successful => (~o.response.some /\ o.error # "")
               /\ o.successful
                     => /\ o.error = ""
                        /\ o.response.some
                        /\ o.response.matched <=> (inc # << >>)
                        /\ \A a \in 1..Len(inc), b \in 1..Len(inc) :
                              (inc[a].file_uri = inc[b].file_uri
                               /\ inc[a].line_number = inc[b].line_number) => a = b

\* a query has returned matches and the response carries two incidents, on two
\* lines of one file, with matched = true
C28_Witness ==
    \E e \in Evals :
        /\ eval[e].pc = "returned"
        /\ eval[e].outcome.successful
        /\ eval[e].outcome.response.matched
        /\ Len(eval[e].outcome.response.incident_contexts) = 2

(***************************************************************************)
(* Properties of the post-processing (specification SpecDedup).            *)
(***************************************************************************)
Range(q) == { q[k] : k \in 1..Len(q) }
KeysOf(q) == { <<r.file_uri, r.line_number>> : r \in Range(q) }
RearrangementsOf(q) ==
    { [k \in 1..Len(q) |-> q[f[k]]] : f \in Permutations(1..Len(q)) }

\* C5: deduplicate_results keeps the same set of records for every permutation
\* of its input.
C5_PermutationInvariant ==
    dd_pc = "deduplicated" =>
        \A q \in RearrangementsOf(results) :
            Range(deduplicate_results(q).out) = Range(new_results)

\* C6: the output holds exactly one record for each (file_uri, line_number) key
\* of the input, that record is an input record, and no other key appears:
\* records on different lines are never merged.
C6_OnePerKey ==
    dd_pc = "deduplicated" =>
        /\ KeysOf(new_results) = KeysOf(results)
        /\ Len(new_results) = Cardinality(KeysOf(results))
        /\ Range(new_results) \subseteq Range(results)

\* three records, two of them on adjacent lines of one file with overlapping
\* spans and two sharing a key, have been reduced to two
C6_Witness ==
    /\ dd_pc = "deduplicated"
    /\ Len(results) = 3
    /\ Len(new_results) = 2
    /\ \E a \in Range(results), b \in Range(results) :
          /\ a.file_uri = b.file_uri
          /\ a.line_number + 1 = b.line_number
          /\ a.end_line >= b.start_line

SpanKey(r) == <<usize_sub(r.end_line, r.start_line), r.start_char, r.end_char>>
Tuple3Less(x, y) ==
    \/ x[1] < y[1]
    \/ (x[1] = y[1] /\ x[2] < y[2])
    \/ (x[1] = y[1] /\ x[2] = y[2] /\ x[3] < y[3])

\* C7: within each group of input records sharing (file_uri, line_number) the
\* record kept has the lexicographically least (span_length, start_char,
\* end_char), span_length being the usize difference end_line - start_line.
C7_KeepsMinimalSpan ==
    dd_pc = "deduplicated" =>
        \A k \in Range(new_results), r \in Range(results) :
            (r.file_uri = k.file_uri /\ r.line_number = k.line_number)
                => ~Tuple3Less(SpanKey(r), SpanKey(k))

\* a group of three records that differ in span, in start character and in end
\* character, whose least one came last in the input, has been reduced to it
C7_Witness ==
    /\ dd_pc = "deduplicated"
    /\ Len(results) = 3
    /\ new_results = <<results[3]>>
    /\ \A r \in Range(results) : r.end_line >= r.start_line
    /\ SpanKey(results[1])[1] > SpanKey(results[3])[1]
    /\ SpanKey(results[2])[1] = SpanKey(results[3])[1]
    /\ SpanKey(results[2])[2] = SpanKey(results[3])[2]
    /\ SpanKey(results[2])[3] > SpanKey(results[3])[3]

\* C8: the incident list is ascending by (file_uri, line_number), the file
\* compared as a string and the line as a number.
C8_SortedByLocationThenLine ==
    dd_pc = "sorted" =>
        \A a \in 1..Len(incidents), b \in 1..Len(incidents) :
            a < b => ~KeyLess(<<incidents[b].file_uri, incidents[b].line_number>>,
                              <<incidents[a].file_uri, incidents[a].line_number>>)

OnePerKey(q) == Cardinality(KeysOf(q)) = Len(q)

\* C20: deduplicate_results is idempotent.  Applied to its own output it returns
\* that output unchanged, and applied to a list that has one record per
\* (file_uri, line_number) key it returns (without panicking) the same records,
\* none dropped and none replaced.
C20_Idempotent ==
    /\ dd_pc = "deduplicated"
          => deduplicate_results(new_results) = [panicked |-> FALSE, out |-> new_results]
    /\ OnePerKey(results)
          => /\ dd_pc # "panicked"
             /\ dd_pc = "deduplicated"
                   => (Range(new_results) = Range(results)
                       /\ Len(new_results) = Len(results))

\* a list of three records with three different keys, not in key order and with
\* a reversed span among them, has gone through deduplicate_results in a build
\* with overflow checks: the three records came back, in key order
C20_Witness ==
    /\ dd_pc = "deduplicated"
    /\ overflow_checks
    /\ Len(results) = 3
    /\ OnePerKey(results)
    /\ \E r \in Range(results) : r.end_line < r.start_line
    /\ new_results # results
    /\ Range(new_results) = Range(results)

\* C29: for every record deduplicate_results compares (every record that
\* shares its key with another record of the input), end_line - start_line is
\* computed without underflow: the call does not panic and the difference it
\* uses is the true difference, not a wrapped one.
C29_SpanNeverUnderflows ==
    /\ dd_pc # "panicked"
    /\ dd_pc \in {"deduplicated", "sorted"}
          => \A a \in 1..Len(results), b \in 1..Len(results) :
                (a # b /\ dedup_key(results[a]) = dedup_key(results[b]))
                    => usize_sub(results[a].end_line, results[a].start_line)
                          = results[a].end_line - results[a].start_line

(***************************************************************************)
(* Properties of the progress stream (specification SpecStream).           *)
(***************************************************************************)
\* C21: a stream_prepare_progress call never delivers anything but one Prepare
\* event of provider "c-sharp" with 0 of 0 files, the stream ends only after
\* that event, and a call whose client keeps the stream is eventually delivered
\* exactly that one event and then the end of the stream.
C21_OneProgressEventThenClose ==
    /\ [](\A s \in Streams :
            /\ stream[s].delivered \in {<< >>, <<PrepareEvent>>}
            /\ stream[s].closed => stream[s].delivered = <<PrepareEvent>>)
    /\ \A s \in Streams :
          (stream[s].pc = "returned")
              ~> (\/ stream[s].rx = "dropped"
                  \/ (stream[s].closed /\ stream[s].delivered = <<PrepareEvent>>))

\* a stream opened while an init was in flight and a project was stored has
\* delivered its event and ended
C21_Witness ==
    /\ project # 0
    /\ InFlightInits # {}
    /\ \E s \in Streams :
          /\ stream[s].closed
          /\ stream[s].rx = "open"
          /\ stream[s].task = "done"
          /\ stream[s].delivered = <<PrepareEvent>>

(***************************************************************************)
(* Properties of the fixed-response calls (specification SpecStubs).       *)
(***************************************************************************)
\* C22: capabilities, prepare, stop, get_dependencies, get_dependencies_dag and
\* notify_file_changes return their fixed response whatever the provider holds
\* (capabilities: the one capability "referenced"; the dependency calls:
\* successful with an empty list; the others: no error), and the step of such a
\* call leaves the stored config and the stored project as they were.
C22_FixedResponsesNoEffect ==
    /\ [](/\ stub.call = "capabilities"
                => stub.response = [kind |-> "ok", capabilities |-> <<"referenced">>]
          /\ stub.call \in {"get_dependencies", "get_dependencies_dag"}
                => (/\ stub.response.kind = "ok"
                    /\ stub.response.successful
                    /\ stub.response.error = ""
                    /\ stub.response.deps = << >>)
          /\ stub.call \in {"prepare", "notify_file_changes"}
                => (stub.response.kind = "ok" /\ stub.response.error = "")
          /\ stub.call = "stop" => stub.response.kind = "ok")
    /\ [][stub' # stub => (config' = config /\ project' = project)]_vars

\* stop has been answered after a successful init, and the config and the
\* project of that init are still stored
C22_Witness ==
    /\ stub.call = "stop"
    /\ EverInitOk
    /\ InFlightInits = {}
    /\ project # 0
    /\ config = project

====
